---------------------------- MODULE Spec2Model ----------------------------
(***************************************************************************)
(* A model of ten4sendfile: sendfile(fd, sd, offset, &len, hdtr, flags)    *)
(* for Mac OS 10.4, with its helpers check_iovv(), spool_iovv() and        *)
(* stubborn_send().  One call of sendfile() is followed from entry to      *)
(* return; every system call it makes (fstat, getsockopt, lseek, writev,   *)
(* nanosleep, read, send) is one step whose outcome the environment picks. *)
(*                                                                         *)
(* Octets are identified by where they come from: <<reg, index>>, region 0 *)
(* being the file (index = file position) and regions 1.. the memory       *)
(* blocks the caller's iovecs point to.  A run of consecutive octets of    *)
(* one region is a segment [reg, lo, hi) and the socket's input is the     *)
(* sequence of segments it accepted, neighbours of one region merged.      *)
(***************************************************************************)
EXTENDS Integers, Sequences, FiniteSets, TLC

(***************************************************************************)
(* Program constants.                                                      *)
(***************************************************************************)
MAX_RETRIES == 50
BUF_SZ == 8192
ETHER_PAYLOAD == 1500

(***************************************************************************)
(* Bounds of the model.                                                    *)
(***************************************************************************)
MaxVecs == 2        \* most iovecs in one header or trailer array
MaxVecLen == 2      \* longest iov_len of one iovec
SmallFile == 3      \* size of the small file; the big one is BUF_SZ + SmallFile
SizeBits == 16      \* width of ssize_t and size_t (32 or 64 in a build)

(***************************************************************************)
(* Pointers, iovecs and segments.                                          *)
(***************************************************************************)
NULL == [reg |-> 0, off |-> 0]              \* a null iov_base
NULLV == [arr |-> 0, idx |-> 0]             \* a null IOVec *
Ptr(r, o) == [reg |-> r, off |-> o]
IOVec(b, n) == [iov_base |-> b, iov_len |-> n]
Seg(r, lo, hi) == [reg |-> r, lo |-> lo, hi |-> hi]

Min(a, b) == IF a < b THEN a ELSE b

\* The socket's input w after it accepted segment s.
Accept(w, s) ==
  IF s.lo >= s.hi THEN w
  ELSE IF w # <<>> /\ w[Len(w)].reg = s.reg /\ w[Len(w)].hi = s.lo
         THEN [w EXCEPT ![Len(w)].hi = s.hi]
         ELSE Append(w, s)

RECURSIVE AcceptAll(_, _)
AcceptAll(w, segs) ==
  IF segs = <<>> THEN w ELSE AcceptAll(Accept(w, Head(segs)), Tail(segs))

\* The first k octets that a list of iovecs describes.
RECURSIVE TakeBytes(_, _)
TakeBytes(vecs, k) ==
  IF k <= 0 \/ vecs = <<>> THEN <<>>
  ELSE LET v == Head(vecs)
           b == v.iov_base
       IN  IF v.iov_len <= k
             THEN <<Seg(b.reg, b.off, b.off + v.iov_len)>>
                    \o TakeBytes(Tail(vecs), k - v.iov_len)
             ELSE <<Seg(b.reg, b.off, b.off + k)>>

RECURSIVE SumLen(_)
SumLen(vecs) ==
  IF vecs = <<>> THEN 0 ELSE Head(vecs).iov_len + SumLen(Tail(vecs))

RECURSIVE SegBytes(_)
SegBytes(w) ==
  IF w = <<>> THEN 0 ELSE (Head(w).hi - Head(w).lo) + SegBytes(Tail(w))

\* The n_el iovecs that the pointer v designates in memory m.
View(m, v, n_el) ==
  IF v.arr = 0 \/ n_el <= 0 THEN <<>>
  ELSE SubSeq(m[v.arr], v.idx + 1, Min(v.idx + n_el, Len(m[v.arr])))


(***************************************************************************)
(* check_iovv(): validates an iovec array and totals its lengths.  The     *)
(* result is the total, or -1 with errno set.  iov_len is a size_t, so     *)
(* "iov_len <= 0" is "iov_len = 0".  The total is kept in an ssize_t:      *)
(* "sum += iov_len" is an addition of size_t values converted back, which  *)
(* wraps around.                                                           *)
(***************************************************************************)
SSIZE_MAX == 2 ^ (SizeBits - 1) - 1

\* the value x as an ssize_t
ssize(x) ==
  LET m == x % (2 ^ SizeBits) IN IF m > SSIZE_MAX THEN m - 2 ^ SizeBits ELSE m

\* check_loop testing an element's length before its base.
RECURSIVE check_loop_len_first(_, _)
check_loop_len_first(vecs, sum) ==
  IF vecs = <<>> THEN [ret |-> sum, errno |-> "0"]
  ELSE IF Head(vecs).iov_len <= 0 THEN [ret |-> -1, errno |-> "EINVAL"]
  ELSE IF Head(vecs).iov_base = NULL THEN [ret |-> -1, errno |-> "EFAULT"]
  ELSE check_loop_len_first(Tail(vecs), ssize(sum + Head(vecs).iov_len))

RECURSIVE check_loop(_, _)
check_loop(vecs, sum) ==
  IF vecs = <<>> THEN [ret |-> sum, errno |-> "0"]
  ELSE IF Head(vecs).iov_base = NULL THEN [ret |-> -1, errno |-> "EFAULT"]
  ELSE IF Head(vecs).iov_len <= 0 THEN [ret |-> -1, errno |-> "EINVAL"]
  ELSE check_loop(Tail(vecs), ssize(sum + Head(vecs).iov_len))

\* check_iovv calling an array of no elements a fault.
check_iovv_empty_is_fault(m, varray, n_el) ==
  IF varray = NULLV \/ n_el <= 0 THEN [ret |-> -1, errno |-> "EFAULT"]
  ELSE check_loop(View(m, varray, n_el), 0)

check_iovv(m, varray, n_el) ==
  IF varray = NULLV THEN [ret |-> -1, errno |-> "EFAULT"]
  ELSE IF n_el <= 0 THEN [ret |-> -1, errno |-> "EINVAL"]
  ELSE check_loop(View(m, varray, n_el), 0)

(***************************************************************************)
(* spool_iovv(): what errno becomes after writev() failed with e, once     *)
(* the EAGAIN retries are used up.                                         *)
(***************************************************************************)
\* spool_errno handing every error of writev() on as it is.
spool_errno_raw(e) == e

spool_errno(e) ==
  CASE e \in {"EAGAIN", "EBADF", "EFAULT", "EINTR", "EINVAL", "EIO"} -> e
    [] e \in {"EDESTADDRREQ", "EPIPE"} -> "ENOTCONN"
    [] e \in {"EDQUOT", "EFBIG", "ENOSPC"} -> "ENOTSOCK"
    [] OTHER -> "EIO"

\* off_t is as wide as ssize_t in the build modelled.
OFF_MAX == SSIZE_MAX

OFF_MIN == -SSIZE_MAX - 1

\* What "a += b" can leave in an off_t.  A sum that fits is the sum.  A sum
\* that does not fit is a signed overflow, which C leaves undefined: the
\* sum wrapped to the width, or either end of the range.
off_add(a, b) ==
  IF a + b \in OFF_MIN..OFF_MAX THEN {a + b}
  ELSE {ssize(a + b), OFF_MIN, OFF_MAX}

\* spool_count keeping only what the last writev() moved.
spool_count_last(l, result) == {result}

\* "*len += result": the octets spool_iovv() has written so far
spool_count(l, result) == off_add(l, result)

(***************************************************************************)
(* spool_iovv(): the adjustment of the iovec array after writev() moved    *)
(* result octets and left_2_go > 0 remain.  inch_up is the "inching up     *)
(* the vector" loop; spool_adjust also trims the partly sent iovec in      *)
(* place, in the caller's memory.                                          *)
(***************************************************************************)
\* inch_up leaving behind a vector that was sent to its last octet.
RECURSIVE inch_up_strict(_, _, _, _)
inch_up_strict(a, idx, n_el, r) ==
  IF a[idx + 1].iov_len < r
    THEN IF n_el - 1 < 1
           THEN [idx |-> idx + 1, n_el |-> n_el - 1,
                 r |-> r - a[idx + 1].iov_len, bad |-> TRUE]
           ELSE inch_up_strict(a, idx + 1, n_el - 1, r - a[idx + 1].iov_len)
    ELSE [idx |-> idx, n_el |-> n_el, r |-> r, bad |-> FALSE]

RECURSIVE inch_up(_, _, _, _)
inch_up(a, idx, n_el, r) ==
  IF a[idx + 1].iov_len <= r
    THEN IF n_el - 1 < 1
           THEN [idx |-> idx + 1, n_el |-> n_el - 1,
                 r |-> r - a[idx + 1].iov_len, bad |-> TRUE]
           ELSE inch_up(a, idx + 1, n_el - 1, r - a[idx + 1].iov_len)
    ELSE [idx |-> idx, n_el |-> n_el, r |-> r, bad |-> FALSE]

spool_adjust(m, iovv, n_el, result) ==
  LET a == m[iovv.arr]
      u == inch_up(a, iovv.idx, n_el, result)
      v == a[u.idx + 1]
      trim == ~u.bad /\ u.r # 0 /\ v.iov_len > u.r
  IN  [iovv |-> [arr |-> iovv.arr, idx |-> u.idx],
       n_el |-> u.n_el,
       bad  |-> u.bad,
       mem  |-> IF trim
                  THEN [m EXCEPT ![iovv.arr][u.idx + 1] =
                          IOVec(Ptr(v.iov_base.reg, v.iov_base.off + u.r),
                                v.iov_len - u.r)]
                  ELSE m]

(***************************************************************************)
(* stubborn_send(): the kinds of send() failure it tells apart, and the    *)
(* next request size after send() refused one of to_send octets with       *)
(* EMSGSIZE.                                                               *)
(***************************************************************************)
\* forbidden knowing only the permission error.
forbidden_only_access(e) == e = "EACCES"

\* errors that sendfile() may not return: reported as ENOTCONN
forbidden(e) == e \in {"EACCES", "EHOSTUNREACH"}

\* transient counting the refusal of an oversized request as well.
transient_with_size(e) == e \in {"EAGAIN", "ENOBUFS", "EMSGSIZE"}

\* errors that are usually transient: slept on and retried
transient(e) == e \in {"EAGAIN", "ENOBUFS"}

\* the request was too big to send at once
oversize(e) == e = "EMSGSIZE"

\* clamp leaving the request as it is.
clamp_none(to_send, b_sz, cumulative) == to_send

\* "Don't try to send more than we have available": the next request once
\* cumulative octets of the b_sz in the buffer are sent
clamp(to_send, b_sz, cumulative) ==
  IF b_sz - cumulative < to_send THEN b_sz - cumulative ELSE to_send

shrink(to_send) ==
  IF to_send > ETHER_PAYLOAD THEN ETHER_PAYLOAD ELSE (to_send * 3) \div 4

(***************************************************************************)
(* sendfile(): its tests on the arguments and on what the queries said.    *)
(***************************************************************************)
\* bad_args without the test of the reserved flags.
bad_args_no_flags(off, fl) == off < 0

bad_args(off, fl) == off < 0 \/ fl # 0

\* not_regular letting every kind of file through.
not_regular_never(mode) == FALSE

not_regular(mode) == mode # "S_IFREG"

not_socket(mode) == mode # "S_IFSOCK"

not_stream(type) == type # "SOCK_STREAM"

\* hand_off asking for an array and a count above 0.
hand_off_array_and_count(h, v, cnt) == ~h.null /\ v # NULLV /\ cnt > 0

\* a header or trailer part is handed to spool_iovv()
hand_off(h, v, cnt) == ~h.null /\ (v # NULLV \/ cnt # 0)

\* to_read taking an offset at the end of the file for one past it.
to_read_end_is_past(l2r, off, st_size) == IF off >= st_size THEN 0 ELSE l2r

\* how much to read from the file, once fstat() told the file's size
to_read(l2r, off, st_size) == IF off > st_size THEN 0 ELSE l2r

\* getsockopt_errno without the remapping of EDOM and ENOPROTOOPT.
getsockopt_errno_raw(e) == e

getsockopt_errno(e) == IF e \in {"EDOM", "ENOPROTOOPT"} THEN "EINVAL" ELSE e

\* read_errno without the remapping of EINVAL.
read_errno_raw(e) == e

read_errno(e) == IF e = "EINVAL" THEN "EIO" ELSE e

\* read() errors that are usually transient: retried
read_transient(e) == e \in {"EINTR", "EAGAIN"}

\* the size of the next read() request
read_size(l2r) == IF BUF_SZ < l2r THEN BUF_SZ ELSE l2r

\* add_part under the other policy: header and trailer octets not counted.
add_part_file_only(l, temp_len) == {l}

\* *len after spool_iovv() succeeded having written temp_len octets
add_part(l, temp_len) == off_add(l, temp_len)

\* retry_ok allowing one retry too many.
retry_ok_one_more(r) == r <= MAX_RETRIES

\* "retries++ < MAX_RETRIES": a transient failure met with r retries made
\* so far is retried
retry_ok(r) == r < MAX_RETRIES

\* seek_failed looking only for the error return of lseek().
seek_failed_only_error(infile_ptr, off) == infile_ptr < 0

\* the test on what lseek() returned
seek_failed(infile_ptr, off) == infile_ptr # off

(***************************************************************************)
(* The state.                                                              *)
(***************************************************************************)
VARIABLES
  \* the caller's arguments and memory
  len_null,     \* the len argument is NULL
  len,          \* *len
  len0,         \* *len at entry
  offset, flags,
  hdtr,         \* [null, headers, hdr_cnt, trailers, trlr_cnt]
  mem,          \* the caller's iovec arrays: mem[a] is array a
  mem0,         \* mem at entry
  \* the descriptors and what lies behind them
  fd_mode,      \* st_mode & S_IFMT of fd
  st_size,      \* size of the file
  fpos,         \* file pointer of fd
  sd_mode,      \* st_mode & S_IFMT of sd
  so_type,      \* SO_TYPE of sd
  sock_max,     \* largest message the socket takes in one send()
  wire,         \* the octets the socket accepted, in order
  \* sendfile()
  pc, ret, errno,
  len_2_read, cumulative, buf_ptr, retries,
  buf_at,       \* file position of buffer[0]'s content
  \* spool_iovv()
  part,         \* "hdr" or "trl": which part is being spooled
  sp,           \* [iovv, n_el, left_2_go, retries, len], what it was handed
                \* and idle: the writev() results of 0 in a row, mod IdleMod
  \* stubborn_send()
  ss,           \* [cumulative, to_send, b_sz, retries], and idle: the
                \* refusals in a row of a request of 0, mod IdleMod
  \* history
  used,         \* the primitives invoked so far (but for nanosleep)
  raw,          \* the errno of the last primitive called ("0": it succeeded)
  cause,        \* the operation whose failure ended the call ("": none)
  partials,     \* partial results the environment produced so far
  zero_send     \* some send() reported success with 0 octets

const == <<len_null, len0, offset, flags, hdtr, mem0,
           fd_mode, st_size, sd_mode, so_type, sock_max>>
vars == <<const, len, mem, fpos, wire, pc, ret, errno,
          len_2_read, cumulative, buf_ptr, retries, buf_at,
          part, sp, ss, used, raw, cause, partials, zero_send>>

(***************************************************************************)
(* The inputs of a call.                                                   *)
(***************************************************************************)
MaxPartial == 2     \* most partial read/writev/send results in one call
FlakyOverlap == 0   \* most retries made after which a failure of another kind
                    \* (or of another primitive) is still tried
IdleMod == 2        \* calls in a row that change nothing are counted modulo this

BigFile == BUF_SZ + SmallFile
MidFile == ETHER_PAYLOAD + SmallFile
BigLen == BigFile + 1
SockLimit == ETHER_PAYLOAD - 500

A(a) == [arr |-> a, idx |-> 0]
Region(a, i) == (a - 1) * MaxVecs + i

\* An element of array a at index i: usable, of length 0, or of null base.
Elems(a, i) ==
  {IOVec(Ptr(Region(a, i), 0), n) : n \in {0, 1, MaxVecLen}}
    \cup {IOVec(NULL, n) : n \in {0, MaxVecLen}}

Arrays(a) ==
  UNION {{s \in [1..k -> UNION {Elems(a, i) : i \in 1..k}] :
            \A i \in 1..k : s[i] \in Elems(a, i)} : k \in 1..MaxVecs}

Dflt(a) == <<IOVec(Ptr(Region(a, 1), 0), MaxVecLen)>>
DfltMem == [a \in 1..2 |-> Dflt(a)]

Hdtr(h, hc, t, tc) ==
  [null |-> FALSE, headers |-> h, hdr_cnt |-> hc, trailers |-> t, trlr_cnt |-> tc]
NoHdtr == [null |-> TRUE, headers |-> NULLV, hdr_cnt |-> 0,
           trailers |-> NULLV, trlr_cnt |-> 0]
BasicHdtr == Hdtr(A(1), 1, A(2), 1)

Forms(a) == {<<NULLV, 0>>, <<NULLV, 1>>, <<NULLV, -1>>, <<A(a), 1>>, <<A(a), 0>>, <<A(a), -1>>}

Nominal ==
  [len_null |-> FALSE, len0 |-> BigLen, offset |-> 0, flags |-> 0,
   fd_mode |-> "S_IFREG", st_size |-> 1, sd_mode |-> "S_IFSOCK",
   so_type |-> "SOCK_STREAM", sock_max |-> BUF_SZ,
   hdtr |-> BasicHdtr, mem |-> DfltMem]

\* calls that differ in the scalar arguments and in the descriptors
ArgInputs ==
  {[Nominal EXCEPT !.len_null = n, !.offset = o, !.flags = f,
                   !.fd_mode = fm, !.sd_mode = sm, !.so_type = st] :
     n \in BOOLEAN, o \in {-1, 0, 1, 2}, f \in {0, 1},
     fm \in {"S_IFREG", "S_IFDIR"}, sm \in {"S_IFSOCK", "S_IFREG"},
     st \in {"SOCK_STREAM", "SOCK_DGRAM"}}

\* calls that differ in the header and trailer description
VecInputs ==
  {[Nominal EXCEPT !.hdtr = NoHdtr]}
  \cup {[Nominal EXCEPT !.hdtr = Hdtr(h[1], h[2], t[1], t[2])] :
          h \in Forms(1), t \in Forms(2) \cup {<<A(1), 1>>}}
  \cup {[Nominal EXCEPT !.hdtr = Hdtr(A(1), Len(x), t, Len(IF t = A(1) THEN x ELSE Dflt(2))),
                        !.mem = [DfltMem EXCEPT ![1] = x]] :
          x \in Arrays(1), t \in {A(1), A(2)}}
  \cup {[Nominal EXCEPT !.hdtr = Hdtr(A(1), 1, A(2), Len(y)),
                        !.mem = [DfltMem EXCEPT ![2] = y]] :
          y \in Arrays(2)}

\* calls that differ in the file, the offset and the length asked for
FileInputs ==
  {[Nominal EXCEPT !.len0 = l, !.offset = o, !.st_size = z, !.hdtr = NoHdtr] :
     l \in {0, SmallFile - 1, BigLen},
     z \in {0, SmallFile, BigFile},
     o \in {0, 1, SmallFile, SmallFile + 1}}
  \cup {[Nominal EXCEPT !.len0 = l, !.offset = o, !.st_size = SmallFile] :
          l \in {0, SmallFile - 1, BigLen},
          o \in {0, 1, SmallFile, SmallFile + 1}}

\* calls on a socket that refuses messages of more than SockLimit octets,
\* on one that refuses every message that is not empty, and on one that
\* refuses every message
SizeInputs ==
  {[Nominal EXCEPT !.offset = o, !.st_size = MidFile, !.hdtr = NoHdtr,
                   !.sock_max = SockLimit] : o \in {0, 1}}
    \cup {[Nominal EXCEPT !.st_size = SmallFile, !.sock_max = m] : m \in {0, -1}}

\* the call of the specification's scenario: a header of 5 octets, a file
\* of 5 octets and a trailer of 1 octet
Scenario ==
  [Nominal EXCEPT !.st_size = 5,
                  !.mem = [a \in 1..2 |-> <<IOVec(Ptr(Region(a, 1), 0),
                                                  IF a = 1 THEN 5 ELSE 1)>>]]

Inputs == ArgInputs \cup VecInputs \cup FileInputs \cup SizeInputs \cup {Scenario}

NoSp == [iovv |-> NULLV, n_el |-> 0, left_2_go |-> 0, retries |-> 0, len |-> 0, idle |-> 0,
         set |-> <<>>, wire0 |-> <<>>]
NoSs == [cumulative |-> 0, to_send |-> 0, b_sz |-> 0, retries |-> 0,
         idle |-> 0]

\* calls whose header lengths add up to the most an ssize_t holds, and
\* to more: to one more, to 2^SizeBits - 1, to 2^SizeBits and past it
WideArrays ==
  {<<IOVec(Ptr(Region(1, 1), 0), x), IOVec(Ptr(Region(1, 2), 0), y)>> :
     <<x, y>> \in {<<SSIZE_MAX - 1, 1>>, <<SSIZE_MAX, 1>>,
                   <<SSIZE_MAX + 1, SSIZE_MAX>>,
                   <<SSIZE_MAX + 1, SSIZE_MAX + 1>>,
                   <<SSIZE_MAX + 1, SSIZE_MAX + 2>>,
                   <<SSIZE_MAX + 1, SSIZE_MAX + 4>>}}

\* the same with the trailers wide in the place of the headers, and a
\* header of nearly the most an off_t counts in front of a file of
\* SmallFile octets
WideInputs ==
  {[Nominal EXCEPT !.hdtr = Hdtr(A(1), Len(x), A(2), 1),
                   !.mem = [DfltMem EXCEPT ![1] = x]] : x \in WideArrays}
  \cup {[Nominal EXCEPT !.hdtr = Hdtr(A(2), 1, A(1), 2),
                        !.mem = [DfltMem EXCEPT ![1] =
                          <<IOVec(Ptr(Region(1, 1), 0), SSIZE_MAX),
                            IOVec(Ptr(Region(1, 2), 0), 1)>>]]}
  \cup {[Nominal EXCEPT !.st_size = SmallFile,
                        !.hdtr = Hdtr(A(1), 1, NULLV, 0),
                        !.mem = [DfltMem EXCEPT ![1] =
                          <<IOVec(Ptr(Region(1, 1), 0), x)>>]] :
          x \in {SSIZE_MAX - 1, SSIZE_MAX}}

InitFrom(calls) ==
  \E i \in calls :
    /\ len_null = i.len_null /\ len = i.len0 /\ len0 = i.len0
    /\ offset = i.offset /\ flags = i.flags
    /\ hdtr = i.hdtr /\ mem = i.mem /\ mem0 = i.mem
    /\ fd_mode = i.fd_mode /\ st_size = i.st_size /\ fpos = 0
    /\ sd_mode = i.sd_mode /\ so_type = i.so_type /\ sock_max = i.sock_max
    /\ wire = <<>>
    /\ pc = "args" /\ ret = 0 /\ errno = "0"
    /\ len_2_read = 0 /\ cumulative = 0 /\ buf_ptr = 0 /\ retries = 0
    /\ buf_at = 0
    /\ part = "hdr" /\ sp = NoSp /\ ss = NoSs
    /\ used = {} /\ raw = "0" /\ cause = "" /\ partials = 0
    /\ zero_send = FALSE

Init == InitFrom(Inputs)

InitWide == InitFrom(WideInputs)

(***************************************************************************)
(* What the primitives may answer.                                         *)
(***************************************************************************)
FstatErrs == {"EBADF", "EIO"}
GetsockoptErrs == {"EBADF", "EDOM", "EFAULT", "ENOPROTOOPT", "ENOTSOCK"}
LseekErrs == {"EOVERFLOW"}
WritevErrs == {"EAGAIN", "EBADF", "EDESTADDRREQ", "EDQUOT", "EFAULT", "EFBIG",
               "EINTR", "EINVAL", "EIO", "ENOBUFS", "ENOSPC", "EPIPE",
               "ECONNRESET"}
ReadErrs == {"EAGAIN", "EINTR", "EINVAL", "EIO", "ENOMEM"}
SendErrs == {"EACCES", "EHOSTUNREACH", "EAGAIN", "ENOBUFS", "EMSGSIZE",
             "EINTR", "EPIPE", "ECONNRESET"}

\* A primitive asked for r > 0 octets moves them all or, while the model's
\* budget of partial results lasts, fewer.  To keep the retry counters from
\* multiplying each other, the model tries a failure only while the other
\* counters are at most FlakyOverlap, and a failure that is not retried only
\* while the primitive's own counter is.
Partial(r) == {k \in {1, r \div 2, r - 1} : 0 < k /\ k < r}
PartialOK == partials < MaxPartial /\ retries <= FlakyOverlap
Moved(r) == {r} \cup (IF PartialOK THEN Partial(r) ELSE {})
Count(k, r) == partials' = IF k < r THEN partials + 1 ELSE partials

\* Fail with the return forgotten after a failed seek.
Fail_falls_through(e, c) ==
  /\ pc' = IF pc = "lseek" THEN "hdr" ELSE "done"
  /\ ret' = -1 /\ errno' = e /\ cause' = c

Fail(e, c) == pc' = "done" /\ ret' = -1 /\ errno' = e /\ cause' = c
Go(p) == pc' = p /\ UNCHANGED <<ret, errno, cause>>
\* a primitive failed with errno e and the call goes on at p
GoOn(p, e) == pc' = p /\ errno' = e /\ UNCHANGED <<ret, cause>>
Use(p) == used' = used \cup {p}

(***************************************************************************)
(* sendfile(), from entry to the seek.                                     *)
(***************************************************************************)
SfValidateArgs ==
  /\ pc = "args"
  /\ IF len_null
       THEN /\ Fail("EINVAL", "args")
            /\ UNCHANGED <<len, len_2_read>>
       ELSE /\ len_2_read' = len
            /\ len' = 0
            /\ IF bad_args(offset, flags) THEN Fail("EINVAL", "args")
                                          ELSE Go("fstat_fd")
  /\ UNCHANGED <<const, mem, fpos, wire, cumulative, buf_ptr, retries, buf_at,
                 part, sp, ss, used, raw, partials, zero_send>>

SfFstatFile ==
  /\ pc = "fstat_fd"
  /\ Use("fstat")
  /\ \/ \E e \in FstatErrs :
          /\ raw' = e
          /\ Fail(e, "fstat_fd")
          /\ UNCHANGED len_2_read
     \/ /\ raw' = "0"
        /\ IF not_regular(fd_mode)
             THEN Fail("ENOTSUP", "fd_mode") /\ UNCHANGED len_2_read
             ELSE /\ len_2_read' = to_read(len_2_read, offset, st_size)
                  /\ Go("fstat_sd")
  /\ UNCHANGED <<const, len, mem, fpos, wire, cumulative, buf_ptr, retries,
                 buf_at, part, sp, ss, partials, zero_send>>

SfFstatSock ==
  /\ pc = "fstat_sd"
  /\ Use("fstat")
  /\ \/ \E e \in FstatErrs : raw' = e /\ Fail(e, "fstat_sd")
     \/ /\ raw' = "0"
        /\ IF not_socket(sd_mode) THEN Fail("ENOTSOCK", "sd_mode")
                                   ELSE Go("getsockopt")
  /\ UNCHANGED <<const, len, mem, fpos, wire, len_2_read, cumulative, buf_ptr,
                 retries, buf_at, part, sp, ss, partials, zero_send>>

SfGetsockopt ==
  /\ pc = "getsockopt"
  /\ Use("getsockopt")
  /\ \/ \E e \in GetsockoptErrs :
          raw' = e /\ Fail(getsockopt_errno(e), "getsockopt")
     \/ /\ raw' = "0"
        /\ IF not_stream(so_type) THEN Fail("ENOTSOCK", "so_type")
                                      ELSE Go("lseek")
  /\ UNCHANGED <<const, len, mem, fpos, wire, len_2_read, cumulative, buf_ptr,
                 retries, buf_at, part, sp, ss, partials, zero_send>>

SfLseek ==
  /\ pc = "lseek"
  /\ Use("lseek")
  /\ \/ \E e \in LseekErrs :               \* lseek() returned -1
          /\ raw' = e
          /\ UNCHANGED fpos
          /\ IF seek_failed(-1, offset) THEN Fail("EIO", "lseek") ELSE Go("hdr")
     \/ \E p \in {offset, offset + 1} :    \* lseek() returned position p
          /\ raw' = "0"
          /\ fpos' = p
          /\ IF seek_failed(p, offset) THEN Fail("EIO", "lseek") ELSE Go("hdr")
  /\ UNCHANGED <<const, len, mem, wire, len_2_read, cumulative, buf_ptr,
                 retries, buf_at, part, sp, ss, partials, zero_send>>

(***************************************************************************)
(* spool_iovv(), as sendfile() calls it for the headers and the trailers.  *)
(***************************************************************************)
\* spool_iovv() returned 0 having written l octets: sendfile() adds them to
\* *len and goes on, to the file after the headers, to its end after the
\* trailers.
SpoolOK(p, l) ==
  /\ len' \in add_part(len, l)
  /\ IF p = "hdr" THEN Go("body")
                      ELSE pc' = "done" /\ ret' = 0 /\ UNCHANGED <<errno, cause>>

SfSpoolPart(p, v, n) ==
  /\ pc = p
  /\ part' = p
  /\ IF hand_off(hdtr, v, n)
       THEN LET c == check_iovv(mem, v, n) IN
            IF c.ret < 0
              THEN /\ sp' = [iovv |-> v, n_el |-> n, left_2_go |-> c.ret,
                             retries |-> 0, len |-> 0, idle |-> 0,
                             set |-> View(mem, v, n), wire0 |-> wire]
                   \* a total below 0 that is no error return of
                   \* check_iovv() leaves errno as it was
                   /\ Fail(IF c.errno = "0" THEN errno ELSE c.errno,
                           "check_iovv")
                   /\ UNCHANGED len
              ELSE IF c.ret > 0
                     THEN /\ sp' = [iovv |-> v, n_el |-> n, left_2_go |-> c.ret,
                                    retries |-> 0, len |-> 0, idle |-> 0,
                                    set |-> View(mem, v, n), wire0 |-> wire]
                          /\ Go("writev")
                          /\ UNCHANGED len
                     ELSE /\ sp' = [iovv |-> v, n_el |-> n, left_2_go |-> 0,
                                    retries |-> 0, len |-> 0, idle |-> 0,
                                    set |-> View(mem, v, n), wire0 |-> wire]
                          /\ SpoolOK(p, 0)
       ELSE /\ sp' = NoSp
            /\ SpoolOK(p, 0)
  /\ UNCHANGED <<const, mem, fpos, wire, len_2_read, cumulative, buf_ptr,
                 retries, buf_at, ss, used, raw, partials, zero_send>>

SfHeaders == SfSpoolPart("hdr", hdtr.headers, hdtr.hdr_cnt)

SfTrailers == SfSpoolPart("trl", hdtr.trailers, hdtr.trlr_cnt)

SpWritev ==
  /\ pc = "writev"
  /\ Use("writev")
  /\ LET view  == View(mem, sp.iovv, sp.n_el)
         total == SumLen(view)
     IN  \/ \E e \in WritevErrs :
              /\ retries <= FlakyOverlap
              /\ e # "EAGAIN" => sp.retries <= FlakyOverlap
              /\ raw' = e
              /\ sp' = [sp EXCEPT !.retries = IF e = "EAGAIN" THEN @ + 1 ELSE @,
                                  !.idle = 0]
              /\ IF e = "EAGAIN" /\ retry_ok(sp.retries)
                   THEN GoOn("sp_sleep", e)
                   ELSE Fail(spool_errno(e), "writev")
              /\ UNCHANGED <<mem, wire, len, partials>>
         \/ /\ retries <= FlakyOverlap     \* writev() returned 0: once more
            /\ raw' = "0"
            /\ sp' = [sp EXCEPT !.idle = (@ + 1) % IdleMod]
            /\ Go("writev")
            /\ UNCHANGED <<mem, wire, len, partials>>
         \/ \E k \in Moved(Min(total, SSIZE_MAX)) :  \* the result is an ssize_t
              /\ Count(k, total)
              /\ wire' = AcceptAll(wire, TakeBytes(view, k))
              /\ raw' = "0"
              /\ \E l \in spool_count(sp.len, k) :
                   IF sp.left_2_go - k > 0
                     THEN LET adj == spool_adjust(mem, sp.iovv, sp.n_el, k) IN
                          /\ mem' = adj.mem
                          /\ sp' = [sp EXCEPT !.len = l,
                                              !.left_2_go = @ - k,
                                              !.iovv = adj.iovv, !.n_el = adj.n_el,
                                              !.idle = 0]
                          /\ IF adj.bad THEN Fail("EINVAL", "spool_adjust")
                                        ELSE Go("writev")
                          /\ UNCHANGED len
                     ELSE /\ UNCHANGED mem
                          \* spool_iovv() returns: its retry count is no more
                          /\ sp' = [sp EXCEPT !.len = l,
                                              !.left_2_go = @ - k,
                                              !.retries = 0, !.idle = 0]
                          /\ SpoolOK(part, l)
  /\ UNCHANGED <<const, fpos, len_2_read, cumulative, buf_ptr, retries, buf_at,
                 part, ss, zero_send>>

SpNanosleep ==
  /\ pc = "sp_sleep"
  /\ \/ raw' = "0" /\ Go("writev")
     \/ /\ retries <= FlakyOverlap /\ sp.retries <= FlakyOverlap + 1
        /\ raw' = "EINTR"
        /\ Fail("EINTR", "sp_sleep")
  /\ UNCHANGED <<const, len, mem, fpos, wire, len_2_read, cumulative, buf_ptr,
                 retries, buf_at, part, sp, ss, used, partials, zero_send>>

(***************************************************************************)
(* sendfile(): the file, read into the buffer and sent from it.            *)
(***************************************************************************)
Loop(l2r) == IF l2r > 0 THEN "read" ELSE "body_end"

\* Again going back to the "retries = 0" in front of the loop.
Again_with_reset(l2r) == IF l2r > 0 THEN "body" ELSE "body_end"

\* where the loop goes on after a chunk is sent: to the test of the while
Again(l2r) == Loop(l2r)

SfBody ==
  /\ pc = "body"
  /\ retries' = 0
  /\ Go(Loop(len_2_read))
  /\ UNCHANGED <<const, len, mem, fpos, wire, len_2_read, cumulative, buf_ptr,
                 buf_at, part, sp, ss, used, raw, partials, zero_send>>

SfRead ==
  /\ pc = "read"
  /\ Use("read")
  /\ LET avail == IF fpos < st_size THEN st_size - fpos ELSE 0
         n     == Min(read_size(len_2_read), avail)
     IN  \/ \E e \in ReadErrs :
              /\ ~read_transient(e) => retries <= FlakyOverlap
              /\ raw' = e
              /\ IF read_transient(e)
                   THEN /\ retries' = retries + 1
                        /\ IF retry_ok(retries)
                             THEN GoOn("read", e) /\ UNCHANGED len
                             ELSE /\ len' \in off_add(len, cumulative)
                                  /\ Fail(e, "read")
                   ELSE /\ UNCHANGED retries
                        /\ len' \in off_add(len, cumulative)
                        /\ Fail(read_errno(e), "read")
              /\ buf_ptr' = -1               \* what read() returned
              /\ UNCHANGED <<fpos, len_2_read, buf_at, ss, partials>>
         \/ /\ n = 0                        \* end of file
            /\ buf_ptr' = 0
            /\ Go("body_end")
            /\ raw' = "0"
            /\ UNCHANGED <<len, fpos, len_2_read, retries, buf_at, ss, partials>>
         \/ /\ n > 0
            /\ \E k \in Moved(n) :
                 /\ Count(k, n)
                 /\ buf_ptr' = k
                 /\ buf_at' = fpos
                 /\ fpos' = fpos + k
                 /\ len_2_read' = len_2_read - k
                 /\ ss' = [cumulative |-> 0, to_send |-> k, b_sz |-> k,
                           retries |-> 0, idle |-> 0]
                 /\ Go("send")
            /\ raw' = "0"
            /\ UNCHANGED <<len, retries>>
  /\ UNCHANGED <<const, mem, wire, cumulative, part, sp, zero_send>>

\* stubborn_send() returned -1 with errno e: *b_sz = cumulative, and
\* sendfile() returns -1 after *len += cumulative.
SsFail(e, c) ==
  /\ buf_ptr' = ss.cumulative
  /\ len' \in off_add(len, cumulative)
  /\ Fail(e, c)
  /\ UNCHANGED <<cumulative, len_2_read>>

\* stubborn_send() returned 0 with *b_sz = c: sendfile() counts c octets.
SsOK(c) ==
  /\ buf_ptr' = c
  /\ cumulative' = cumulative + c
  /\ ss' = NoSs
  /\ Go(Again(len_2_read))
  /\ UNCHANGED <<len, len_2_read>>

SsSend ==
  /\ pc = "send"
  /\ Use("send")
  /\ \/ \E e \in SendErrs :
          \* a request above what the socket takes is refused with EMSGSIZE
          \* unless the socket would block first; any other request may
          \* fail in the other ways
          /\ IF ss.to_send > sock_max
               THEN e = "EMSGSIZE" \/ (e = "EAGAIN" /\ retries <= FlakyOverlap)
               ELSE /\ e # "EMSGSIZE"
                    /\ retries <= FlakyOverlap
                    /\ ~transient(e) => ss.retries <= FlakyOverlap
          /\ raw' = e
          /\ IF forbidden(e)
               THEN ss' = ss /\ SsFail("ENOTCONN", "send")
               ELSE IF transient(e)
                      THEN /\ ss' = [ss EXCEPT !.retries = @ + 1, !.idle = 0]
                           /\ IF retry_ok(ss.retries)
                                THEN /\ GoOn("ss_sleep", e)
                                     /\ UNCHANGED <<len, len_2_read,
                                                    cumulative, buf_ptr>>
                                ELSE SsFail("EAGAIN", "send")
                      ELSE IF oversize(e)
                             THEN /\ ss' = [ss EXCEPT
                                             !.to_send = shrink(@),
                                             !.idle = IF shrink(ss.to_send) = ss.to_send
                                                        THEN (@ + 1) % IdleMod
                                                        ELSE 0]
                                  /\ GoOn("send", e)
                                  /\ UNCHANGED <<len, len_2_read,
                                                 cumulative, buf_ptr>>
                             ELSE ss' = ss /\ SsFail(e, "send")
          /\ UNCHANGED <<wire, partials, zero_send>>
     \/ /\ ss.to_send <= sock_max
        /\ \E k \in Moved(ss.to_send) \cup (IF PartialOK THEN {0} ELSE {}) :
             /\ Count(k, ss.to_send)
             /\ zero_send' = (zero_send \/ k = 0)
             /\ wire' = Accept(wire, Seg(0, buf_at + ss.cumulative,
                                            buf_at + ss.cumulative + k))
             /\ raw' = "0"
             /\ IF k = 0
                  THEN SsOK(ss.cumulative)  \* "We must be done"
                  ELSE IF ss.cumulative + k < ss.b_sz
                         THEN /\ ss' = [ss EXCEPT
                                   !.cumulative = @ + k,
                                   !.to_send = clamp(@, ss.b_sz, ss.cumulative + k),
                                   !.idle = 0]
                              /\ Go("send")
                              /\ UNCHANGED <<len, len_2_read, cumulative, buf_ptr>>
                         ELSE SsOK(ss.cumulative + k)
  /\ UNCHANGED <<const, mem, fpos, retries, buf_at, part, sp>>

SsNanosleep ==
  /\ pc = "ss_sleep"
  /\ \/ /\ raw' = "0"
        /\ Go("send")
        /\ UNCHANGED <<len, len_2_read, cumulative, buf_ptr>>
     \/ /\ retries <= FlakyOverlap /\ ss.retries <= FlakyOverlap + 1
        /\ raw' = "EINTR"
        /\ SsFail("EINTR", "ss_sleep")
  /\ UNCHANGED <<const, mem, fpos, wire, retries, buf_at, part, sp, ss,
                 used, partials, zero_send>>

SfBodyEnd ==
  /\ pc = "body_end"
  /\ len' \in off_add(len, cumulative)
  /\ Go("trl")
  /\ UNCHANGED <<const, mem, fpos, wire, len_2_read, cumulative, buf_ptr,
                 retries, buf_at, part, sp, ss, used, raw, partials, zero_send>>

Next ==
  \/ SfValidateArgs
  \/ SfFstatFile
  \/ SfFstatSock
  \/ SfGetsockopt
  \/ SfLseek
  \/ SfHeaders
  \/ SpWritev
  \/ SpNanosleep
  \/ SfBody
  \/ SfRead
  \/ SsSend
  \/ SsNanosleep
  \/ SfBodyEnd
  \/ SfTrailers

Spec == Init /\ [][Next]_vars

\* sendfile() runs to its return: no statement is left waiting for ever.
FairSpec == Spec /\ WF_vars(Next)

\* the calls whose header lengths reach the width of ssize_t
WideSpec == InitWide /\ [][Next]_vars

(***************************************************************************)
(* Vocabulary of the properties.                                           *)
(***************************************************************************)
Returned == pc = "done"

Succeeded == Returned /\ ret = 0

Failed == Returned /\ ret = -1

ArgsOK == ~len_null /\ offset >= 0 /\ flags = 0

\* The octets of the file, and of the caller's memory, that the socket took.
FileSegs(w) == SelectSeq(w, LAMBDA s : s.reg = 0)

FileBytes == SegBytes(FileSegs(wire))

MemBytes == SegBytes(SelectSeq(wire, LAMBDA s : s.reg # 0))

\* The header and trailer sets as the caller handed them over.
HeaderSet == IF hdtr.null THEN <<>> ELSE View(mem0, hdtr.headers, hdtr.hdr_cnt)

TrailerSet == IF hdtr.null THEN <<>> ELSE View(mem0, hdtr.trailers, hdtr.trlr_cnt)

\* One array handed over as both the header set and the trailer set.
Aliased == ~hdtr.null /\ hdtr.headers # NULLV /\ hdtr.headers = hdtr.trailers

AllOf(vecs) == TakeBytes(vecs, SumLen(vecs))

\* H, then F[o .. min(o+n, size)), then T.
Expected ==
  AcceptAll(<<>>, AllOf(HeaderSet)
                    \o <<Seg(0, offset, Min(offset + len0, st_size))>>
                    \o AllOf(TrailerSet))

Moving == {"lseek", "read", "writev", "send"}

\* The call was turned down with errno e before anything moved.
Rejected(e) ==
  /\ ret = -1
  /\ errno = e
  /\ len = 0
  /\ wire = <<>>
  /\ used \cap Moving = {}

(***************************************************************************)
(* C1.  A successful call with offset <= size and a requested length > 0,  *)
(* on a socket whose writev/send take any positive partial amount, puts    *)
(* on the socket exactly the octets of the header set, then the file's     *)
(* octets from offset to min(offset + length, size), then the octets of    *)
(* the trailer set, none lost and none twice.                              *)
(***************************************************************************)
C1_ExactDelivery ==
  (Succeeded /\ offset <= st_size /\ len0 > 0 /\ ~zero_send) => wire = Expected

(***************************************************************************)
(* C2.  On every return with a non-null length reference, the length       *)
(* output is the number of octets the socket took during the call.         *)
(***************************************************************************)
C2_LenIsWhatWasSent ==
  (Returned /\ ~len_null) => len = SegBytes(wire)

(***************************************************************************)
(* C3.  A requested length of 0 means "through end of file": with          *)
(* offset <= size the successful call has sent size - offset octets of     *)
(* the file.                                                               *)
(***************************************************************************)
C3_ZeroIsThroughEOF ==
  (Succeeded /\ len0 = 0 /\ offset <= st_size /\ ~zero_send)
    => FileBytes = st_size - offset

(***************************************************************************)
(* C4.  With an offset strictly greater than the file's size, a call on    *)
(* which no validation and no primitive fails returns success with length  *)
(* 0 and makes no writev or send: no header, no trailer.                   *)
(***************************************************************************)
C4_BeyondEOFSendsNothing ==
  (Returned /\ ArgsOK /\ offset > st_size /\ cause = "")
    => ret = 0 /\ len = 0 /\ wire = <<>> /\ used \cap {"writev", "send"} = {}

(***************************************************************************)
(* C5.  On success the length output is header octets + file octets +      *)
(* trailer octets sent, not the file octets alone; a header of 5, a file   *)
(* of 5 and a trailer of 1, each taken whole, give 11.                     *)
(***************************************************************************)
C5_LenCountsAllThree ==
  Succeeded =>
    /\ len = MemBytes + FileBytes
    /\ ~Aliased => len = SumLen(HeaderSet) + FileBytes + SumLen(TrailerSet)

C5_Witness ==
  /\ Succeeded
  /\ SumLen(HeaderSet) = 5 /\ FileBytes = 5 /\ SumLen(TrailerSet) = 1
  /\ partials = 0
  /\ len = 11

(***************************************************************************)
(* C6.  With the length reference absent, the offset negative or the       *)
(* flags nonzero, the call fails with EINVAL, no fstat, getsockopt,        *)
(* lseek, read, writev or send is made, and the length output (when there  *)
(* is one) is 0.                                                           *)
(***************************************************************************)
C6_BadArguments ==
  (len_null \/ offset < 0 \/ flags # 0) =>
    /\ used = {}
    /\ wire = <<>>
    /\ Returned => ret = -1 /\ errno = "EINVAL" /\ (~len_null => len = 0)

C6_Witness ==
  Failed /\ ~len_null /\ offset >= 0 /\ flags # 0 /\ len0 > 0 /\ len = 0
    /\ errno = "EINVAL"

(***************************************************************************)
(* C7.  A file descriptor that is not a regular file fails the call with   *)
(* ENOTSUP, length 0, and no lseek, read, writev or send; an error of      *)
(* fstat(fd) itself is returned unchanged.                                 *)
(***************************************************************************)
C7_NotARegularFile ==
  (Returned /\ ArgsOK) =>
    /\ cause = "fstat_fd" => Rejected(raw) /\ used = {"fstat"}
    /\ (cause # "fstat_fd" /\ fd_mode # "S_IFREG")
         => Rejected("ENOTSUP") /\ used = {"fstat"}

C7_Witness ==
  Failed /\ ArgsOK /\ fd_mode = "S_IFDIR" /\ errno = "ENOTSUP" /\ len0 > 0
    /\ len = 0

(***************************************************************************)
(* C8.  A socket descriptor that is not a socket, or not of stream type,   *)
(* fails the call with ENOTSOCK; getsockopt failing with EDOM or           *)
(* ENOPROTOOPT fails it with EINVAL, and with anything else fails it with  *)
(* that error unchanged; in each case the length output is 0 and nothing   *)
(* has been written.                                                       *)
(***************************************************************************)
C8_NotAStreamSocket ==
  (Returned /\ ArgsOK /\ fd_mode = "S_IFREG"
            /\ cause \notin {"fstat_fd", "fstat_sd"}) =>
    /\ sd_mode # "S_IFSOCK" => Rejected("ENOTSOCK")
    /\ (sd_mode = "S_IFSOCK" /\ cause = "getsockopt")
         => Rejected(IF raw \in {"EDOM", "ENOPROTOOPT"} THEN "EINVAL" ELSE raw)
    /\ (sd_mode = "S_IFSOCK" /\ cause # "getsockopt" /\ so_type # "SOCK_STREAM")
         => Rejected("ENOTSOCK")

C8_Witness ==
  Failed /\ cause = "getsockopt" /\ raw = "EDOM" /\ errno = "EINVAL" /\ len = 0

(***************************************************************************)
(* C9.  A failure that comes from validation (of the arguments, of the     *)
(* file, of the socket, of the header set or of the trailer set) is        *)
(* reported before any octet has been written to the socket.               *)
(***************************************************************************)
C9_ValidationBeforeData ==
  (Failed /\ cause \in {"args", "fd_mode", "sd_mode", "so_type", "check_iovv"})
    => wire = <<>>

\* The errors that the documentation of sendfile() lists.
Documented ==
  {"EAGAIN", "EBADF", "EFAULT", "EINTR", "EINVAL", "EIO", "ENOTCONN",
   "ENOTSOCK", "ENOTSUP", "EPIPE"}

(***************************************************************************)
(* C10.  Every failed call reports one of the ten documented errors,       *)
(* whatever error the underlying primitive produced.                       *)
(***************************************************************************)
C10_DocumentedErrorsOnly == Failed => errno \in Documented

\* The stage that the statement at p belongs to, the primitives that a
\* stage calls, and what a step of a call may do.
Stage(p, prt) ==
  CASE p = "args" -> 1
    [] p = "fstat_fd" -> 2
    [] p \in {"fstat_sd", "getsockopt"} -> 3
    [] p = "lseek" -> 4
    [] p = "hdr" -> 5
    [] p \in {"writev", "sp_sleep"} -> IF prt = "hdr" THEN 5 ELSE 7
    [] p \in {"body", "read", "send", "ss_sleep", "body_end"} -> 6
    [] p = "trl" -> 7
    [] p = "done" -> 8

Primitives(stage) ==
  CASE stage = 2 -> {"fstat"}
    [] stage = 3 -> {"fstat", "getsockopt"}
    [] stage = 4 -> {"lseek"}
    [] stage \in {5, 7} -> {"writev"}
    [] stage = 6 -> {"read", "send"}
    [] OTHER -> {}

StageStep ==
  /\ pc # "done"
  /\ Stage(pc', part') \in {Stage(pc, part), Stage(pc, part) + 1, 8}
  /\ used' \ used \subseteq Primitives(Stage(pc, part))
  /\ cause' # "" => pc' = "done" /\ ret' = -1
  /\ (pc' = "done" /\ cause' = "") => Stage(pc, part) = 7 /\ ret' = 0

(***************************************************************************)
(* C11.  The stages run in the order ValidateArgs, ValidateFile,           *)
(* ValidateSocket, Seek, SendHeaders, RelayBody, SendTrailers: every step  *)
(* stays in its stage, enters the next one or ends the call, calls only    *)
(* the primitives of its stage, and the first failure ends the call, after *)
(* which nothing more is done; success is reached from the last stage.     *)
(***************************************************************************)
C11_StagesInOrder == [][StageStep]_vars

C11_Witness ==
  Failed /\ cause = "writev" /\ part = "hdr" /\ wire # <<>>
    /\ used \cap {"read", "send"} = {} /\ len0 > 0 /\ offset < st_size

\* spool_iovv() has just returned 0 to sendfile().
SpoolReturned ==
  /\ sp.set # <<>>
  /\ \/ part = "hdr" /\ pc = "body"
     \/ part = "trl" /\ Succeeded

\* What spool_iovv() delivers when it returns 0: the count is the set's
\* length, nothing is left to go, and the socket has received the vectors'
\* octets in order, each once.
SpoolDelivered ==
  /\ sp.len = SumLen(sp.set)
  /\ sp.left_2_go = 0
  /\ wire = AcceptAll(sp.wire0, AllOf(sp.set))
  /\ SegBytes(wire) = SegBytes(sp.wire0) + SumLen(sp.set)

\* The cursor of spool_iovv(), its array pointer and count, is past the
\* last vector: no vector is left in its view.
Drained == sp.n_el = 0 /\ View(mem, sp.iovv, sp.n_el) = <<>>

(***************************************************************************)
(* C12.  Whatever writev() accepts each time, from 1 octet to all that     *)
(* remain, spool_iovv() on a valid set of total length L never runs out    *)
(* of vectors, and when it returns 0 it reports L octets, the socket has   *)
(* received the vectors' octets in order, each once, and the cursor is     *)
(* fully drained.                                                          *)
(***************************************************************************)
C12_SpoolDeliversAll ==
  /\ cause # "spool_adjust"
  /\ SpoolReturned => (SpoolDelivered /\ Drained)

\* stubborn_send() has returned 0 and read() was not called since: buf_ptr
\* is the count that stubborn_send() gave back.
SendReturned ==
  /\ "send" \in used
  /\ ss = NoSs
  /\ raw = "0"
  /\ pc = "read" \/ (pc = "body_end" /\ len_2_read = 0)

\* The file's octets on the socket are those from offset up to position p.
FileSentUpTo(p) ==
  FileSegs(wire) = IF p > offset THEN <<Seg(0, offset, p)>> ELSE <<>>

\* The would-block count of stubborn_send() is within the ceiling while it
\* runs; it fails for would-block exactly past the ceiling, reporting what
\* the socket took of the buffer; returning 0, it has sent the whole buffer.
WouldBlockCeiling ==
  /\ pc \in {"send", "ss_sleep"} => ss.retries <= MAX_RETRIES
  /\ (Failed /\ cause = "send" /\ raw \in {"EAGAIN", "ENOBUFS"}) =>
       /\ errno = "EAGAIN"
       /\ ss.retries = MAX_RETRIES + 1
       /\ buf_ptr = ss.cumulative
       /\ ~zero_send => FileSentUpTo(buf_at + buf_ptr)
  /\ (SendReturned /\ ~zero_send) =>
       /\ buf_ptr = fpos - buf_at
       /\ FileSentUpTo(fpos)

(***************************************************************************)
(* C13.  stubborn_send() on a buffer of N octets: while send() has         *)
(* reported EAGAIN/ENOBUFS no more than MAX_RETRIES times the call goes    *)
(* on and eventually returns; if send() otherwise accepts octets it        *)
(* returns 0 with all N octets sent once, in order; the would-block after  *)
(* the MAX_RETRIES-th makes it fail with EAGAIN, its count output being    *)
(* the octets of the buffer that the socket accepted.                      *)
(***************************************************************************)
C13_WouldBlockCeiling ==
  /\ []WouldBlockCeiling
  /\ (pc = "send" /\ sock_max >= 0) ~> (SendReturned \/ Failed)

C13_Witness ==
  /\ Failed /\ cause = "send" /\ errno = "EAGAIN"
  /\ ss.retries = MAX_RETRIES + 1
  /\ buf_ptr > 0 /\ buf_ptr < ss.b_sz
  /\ ~zero_send

(***************************************************************************)
(* C14.  However often send() refuses a request with EMSGSIZE, the         *)
(* request of stubborn_send() never drops below 1500 octets unless fewer   *)
(* than that remain to be sent, and no octet of the buffer is lost or      *)
(* sent twice: when send() never reports 0 octets for a request of more,   *)
(* a return of 0 means the whole buffer went out, in order.                *)
(***************************************************************************)
C14_ShrinkHasFloor ==
  /\ pc = "send" =>
       ss.to_send >= Min(ETHER_PAYLOAD, ss.b_sz - ss.cumulative)
  /\ (SendReturned /\ (~zero_send \/ sock_max = 0)) =>
       /\ buf_ptr = fpos - buf_at
       /\ FileSentUpTo(fpos)

\* check_iovv() has just turned down the set that sp describes.
CheckFailed == Failed /\ cause = "check_iovv"

(***************************************************************************)
(* C15.  check_iovv() on a null array, or on an array of zero elements,    *)
(* fails with EFAULT.                                                      *)
(***************************************************************************)
C15_EmptySetIsFault ==
  (CheckFailed /\ (sp.iovv = NULLV \/ sp.n_el = 0)) => errno = "EFAULT"

(***************************************************************************)
(* C15, amended.  check_iovv() on a null array fails with EFAULT; on a     *)
(* non-null array of zero (or fewer) elements it fails with EINVAL; no     *)
(* such set gets as far as writev().                                       *)
(***************************************************************************)
C15_NullIsFaultEmptyIsArgument ==
  /\ CheckFailed =>
       /\ sp.iovv = NULLV => errno = "EFAULT"
       /\ (sp.iovv # NULLV /\ sp.n_el <= 0) => errno = "EINVAL"
  /\ pc \in {"writev", "sp_sleep"} => sp.iovv # NULLV /\ sp.n_el >= 1

C15_Witness ==
  CheckFailed /\ sp.iovv # NULLV /\ sp.n_el = 0 /\ errno = "EINVAL"

\* What check_iovv() has to find wrong with an element.
BadVec(v) == v.iov_base = NULL \/ v.iov_len <= 0

FirstBad(set) ==
  CHOOSE i \in 1..Len(set) :
    BadVec(set[i]) /\ \A j \in 1..(i - 1) : ~BadVec(set[j])

(***************************************************************************)
(* C16.  check_iovv() on a non-null array of n >= 1 elements fails for     *)
(* the first bad element in index order, with EFAULT if its base is null   *)
(* and otherwise with EINVAL for its length, reporting no length; with no  *)
(* bad element it returns the sum of the lengths, which is positive; it    *)
(* changes nothing.                                                        *)
(***************************************************************************)
C16_FirstBadVectorDecides ==
  /\ (CheckFailed /\ sp.iovv # NULLV /\ sp.n_el >= 1) =>
       /\ \E i \in 1..Len(sp.set) : BadVec(sp.set[i])
       /\ errno = IF sp.set[FirstBad(sp.set)].iov_base = NULL
                    THEN "EFAULT" ELSE "EINVAL"
       /\ sp.left_2_go = -1 /\ sp.len = 0
       /\ View(mem, sp.iovv, sp.n_el) = sp.set
       /\ wire = sp.wire0
  /\ pc \in {"writev", "sp_sleep"} =>
       /\ \A i \in 1..Len(sp.set) : ~BadVec(sp.set[i])
       /\ Len(sp.set) >= 1 /\ SumLen(sp.set) > 0
       /\ sp.len + sp.left_2_go = SumLen(sp.set)
       /\ (sp.len = 0 /\ sp.retries = 0) =>
            View(mem, sp.iovv, sp.n_el) = sp.set /\ wire = sp.wire0

C16_Witness ==
  /\ CheckFailed
  /\ Len(sp.set) = 2
  /\ ~BadVec(sp.set[1])
  /\ sp.set[2] = IOVec(NULL, 0)
  /\ errno = "EFAULT"

(***************************************************************************)
(* C17.  A call never modifies the caller's header and trailer arrays:     *)
(* when it returns, every element's base and length are as they were at    *)
(* entry, also after a partial writev().                                   *)
(***************************************************************************)
C17_CallerArraysUntouched == Returned => mem = mem0

(***************************************************************************)
(* C18.  The seek is made once.  If lseek() reports the requested offset   *)
(* the call goes on to the headers; if it reports any other position, or   *)
(* an error, the call fails with EIO and length 0, and no header, file or  *)
(* trailer octet is written.                                               *)
(***************************************************************************)
C18_SeekMismatchIsFatal ==
  [][pc = "lseek" =>
       /\ pc' # "lseek"
       /\ IF raw' = "0" /\ fpos' = offset
            THEN pc' = "hdr" /\ cause' = ""
            ELSE /\ pc' = "done" /\ ret' = -1 /\ errno' = "EIO"
                 /\ cause' = "lseek"
                 /\ len' = 0 /\ wire' = <<>>
                 /\ used' \cap {"read", "writev", "send"} = {}]_vars

C18_Witness ==
  Failed /\ cause = "lseek" /\ raw = "0" /\ fpos # offset /\ errno = "EIO"
    /\ len0 > 0 /\ len = 0 /\ wire = <<>>

(***************************************************************************)
(* C19.  When spool_iovv() fails on the headers or on the trailers after   *)
(* the socket accepted k >= 0 octets of the set, the call fails with the   *)
(* error of spool_iovv() and the length output is what the earlier stages  *)
(* sent plus k.                                                            *)
(***************************************************************************)
C19_SpoolFailureCounted ==
  (Failed /\ cause \in {"writev", "sp_sleep", "spool_adjust"}) =>
    /\ cause = "writev" => errno = spool_errno(raw)
    /\ cause = "sp_sleep" => errno = "EINTR"
    /\ len = SegBytes(sp.wire0) + sp.len

(***************************************************************************)
(* C20.  When stubborn_send() fails on a chunk of the file after the       *)
(* socket accepted k >= 0 octets of the chunk, the length output is what   *)
(* was sent before the chunk plus exactly k.                               *)
(***************************************************************************)
C20_SendFailureCounted ==
  (Failed /\ cause \in {"send", "ss_sleep"}) =>
    /\ buf_ptr = ss.cumulative
    /\ len = MemBytes + cumulative + buf_ptr

(***************************************************************************)
(* C21.  Every send() of stubborn_send() starts at the first octet of the  *)
(* buffer not yet sent, and stubborn_send() returns 0 only when the        *)
(* socket has accepted all N octets of the buffer, once and in order, its  *)
(* count output being N; also when some send() reported success with 0     *)
(* octets accepted.                                                        *)
(***************************************************************************)
C21_SuccessMeansAllSent ==
  /\ pc = "send" =>
       /\ ss.cumulative < ss.b_sz
       /\ ss.b_sz = fpos - buf_at
       /\ ~zero_send => FileSentUpTo(buf_at + ss.cumulative)
  /\ SendReturned =>
       /\ buf_ptr = fpos - buf_at
       /\ cumulative = fpos - offset
       /\ FileBytes = fpos - offset

(***************************************************************************)
(* C22.  When writev() fails inside spool_iovv(), the caller is told       *)
(* ENOTSOCK for EDQUOT, EFBIG and ENOSPC; ENOTCONN for EDESTADDRREQ and    *)
(* EPIPE; EIO for ENOBUFS and for every error not listed; and the error    *)
(* itself for EBADF, EFAULT, EINTR, EINVAL, EIO and, once the retries are  *)
(* used up, EAGAIN.                                                        *)
(***************************************************************************)
C22_WritevErrorMapping ==
  (Failed /\ cause = "writev") =>
    /\ raw \in {"EDQUOT", "EFBIG", "ENOSPC"} => errno = "ENOTSOCK"
    /\ raw \in {"EDESTADDRREQ", "EPIPE"} => errno = "ENOTCONN"
    /\ raw \in {"EBADF", "EFAULT", "EINTR", "EINVAL", "EIO"} => errno = raw
    /\ raw = "EAGAIN" => errno = "EAGAIN" /\ sp.retries > MAX_RETRIES
    /\ raw \notin {"EDQUOT", "EFBIG", "ENOSPC", "EDESTADDRREQ", "EPIPE",
                   "EBADF", "EFAULT", "EINTR", "EINVAL", "EIO", "EAGAIN"}
         => errno = "EIO"

C22_Witness ==
  /\ Failed /\ cause = "writev"
  /\ raw = "ENOSPC" /\ errno = "ENOTSOCK"
  /\ part = "trl" /\ sp.len > 0 /\ sp.left_2_go > 0

\* What a step of spool_iovv() does with a would-block from writev(), and
\* with the sleep that follows it.
WouldBlockStep ==
  /\ (pc = "writev" /\ raw' = "EAGAIN") =>
       /\ sp'.retries = sp.retries + 1
       /\ wire' = wire /\ mem' = mem /\ sp'.len = sp.len
       /\ IF sp.retries < MAX_RETRIES
            THEN pc' = "sp_sleep"
            ELSE pc' = "done" /\ ret' = -1 /\ errno' = "EAGAIN"
  /\ (pc = "sp_sleep" /\ raw' = "0") =>
       pc' = "writev" /\ sp' = sp /\ wire' = wire /\ mem' = mem
  /\ pc' = "sp_sleep" => pc = "writev" /\ raw' = "EAGAIN"

(***************************************************************************)
(* C23.  In spool_iovv() a would-block (EAGAIN) from writev() is retried   *)
(* after one sleep, at most MAX_RETRIES times in a call; the would-block   *)
(* after those makes the call fail with EAGAIN, so that a socket that      *)
(* always reports would-block sees MAX_RETRIES + 1 attempts and no more.   *)
(***************************************************************************)
C23_SpoolWouldBlockCeiling ==
  /\ [](pc \in {"writev", "sp_sleep"} => sp.retries <= MAX_RETRIES)
  /\ []((Failed /\ cause = "writev" /\ raw = "EAGAIN") =>
          errno = "EAGAIN" /\ sp.retries = MAX_RETRIES + 1)
  /\ [][WouldBlockStep]_vars

C23_Witness ==
  /\ Failed /\ cause = "writev" /\ raw = "EAGAIN" /\ errno = "EAGAIN"
  /\ sp.retries = MAX_RETRIES + 1
  /\ wire = <<>> /\ part = "hdr"

\* spool_iovv() has just returned -1 from its loop.
SpoolFailed == Failed /\ cause \in {"writev", "sp_sleep"}

\* What the socket took of the set since spool_iovv() was entered.
SpoolTaken == SegBytes(wire) - SegBytes(sp.wire0)

(***************************************************************************)
(* C24.  When spool_iovv() fails, for a writev() error that is not         *)
(* retried, for a would-block past the ceiling or for an interrupted       *)
(* sleep, after the socket accepted k >= 0 octets of the set, it returns   *)
(* at once, making no other writev(), and its count output is k: the       *)
(* socket holds the first k octets of the set.                             *)
(***************************************************************************)
C24_SpoolFailureReportsProgress ==
  /\ [](SpoolFailed =>
          /\ sp.len = SpoolTaken
          /\ sp.len + sp.left_2_go = SumLen(sp.set)
          /\ wire = AcceptAll(sp.wire0, TakeBytes(sp.set, sp.len)))
  /\ [][(pc \in {"writev", "sp_sleep"} /\ raw' # "0"
           /\ ~(raw' = "EAGAIN" /\ pc = "writev" /\ sp.retries < MAX_RETRIES))
          => /\ pc' = "done" /\ ret' = -1
             /\ wire' = wire /\ sp'.len = sp.len]_vars

C24_Witness ==
  /\ SpoolFailed /\ cause = "sp_sleep"
  /\ Len(sp.set) = MaxVecs
  /\ sp.len = MaxPartial /\ partials = MaxPartial
  /\ sp.left_2_go > 0

\* The iovecs that spool_iovv() would hand to writev() now.
SpoolView == View(mem, sp.iovv, sp.n_el)

(***************************************************************************)
(* C25.  At every writev() of spool_iovv() and at every failure return,    *)
(* the view (array pointer, element count, first element's base and        *)
(* length) describes exactly the part of the original set not yet sent:    *)
(* every vector in the view has a length above 0, the lengths add up to    *)
(* the octets still to send, and the octets sent followed by the view's    *)
(* octets are the octets of the set, so no vector sent to its end is in    *)
(* the view.                                                               *)
(***************************************************************************)
C25_ViewIsUnsentSuffix ==
  (pc \in {"writev", "sp_sleep"} \/ SpoolFailed) =>
    /\ sp.n_el >= 1 /\ Len(SpoolView) = sp.n_el
    /\ \A i \in 1..Len(SpoolView) :
         SpoolView[i].iov_len > 0 /\ SpoolView[i].iov_base # NULL
    /\ SumLen(SpoolView) = sp.left_2_go
    /\ sp.left_2_go > 0
    /\ AcceptAll(<<>>, TakeBytes(sp.set, sp.len) \o AllOf(SpoolView))
         = AcceptAll(<<>>, AllOf(sp.set))
    /\ \E j \in 0..(Len(sp.set) - 1) :
         /\ Len(SpoolView) = Len(sp.set) - j
         /\ SumLen(SubSeq(sp.set, 1, j)) <= sp.len
         /\ sp.len < SumLen(SubSeq(sp.set, 1, j + 1))
         /\ \A i \in 2..Len(SpoolView) : SpoolView[i] = sp.set[j + i]

C25_Witness ==
  /\ pc = "writev"
  /\ Len(sp.set) = MaxVecs
  /\ sp.set[1].iov_len = 1 /\ sp.set[2].iov_len = MaxVecLen
  /\ sp.len = 2
  /\ sp.n_el = 1 /\ sp.iovv.idx = 1
  /\ SpoolView[1].iov_len = MaxVecLen - 1
  /\ SpoolView[1].iov_base.off = 1

(***************************************************************************)
(* C26.  In stubborn_send() a send() that fails with EACCES or             *)
(* EHOSTUNREACH is reported as ENOTCONN; the loop stops, no other send()   *)
(* is made, and the count output is the number of octets of the buffer     *)
(* that the socket accepted so far.                                        *)
(***************************************************************************)
C26_ForbiddenIsNotConnected ==
  /\ []((Failed /\ cause = "send" /\ raw \in {"EACCES", "EHOSTUNREACH"}) =>
          /\ errno = "ENOTCONN"
          /\ buf_ptr = ss.cumulative
          /\ ~zero_send => FileSentUpTo(buf_at + buf_ptr))
  /\ [][(pc = "send" /\ raw' \in {"EACCES", "EHOSTUNREACH"}) =>
          /\ pc' = "done" /\ ret' = -1 /\ errno' = "ENOTCONN"
          /\ wire' = wire /\ buf_ptr' = ss.cumulative]_vars

C26_Witness ==
  /\ Failed /\ cause = "send" /\ raw = "EHOSTUNREACH" /\ errno = "ENOTCONN"
  /\ buf_ptr > 0 /\ buf_ptr < ss.b_sz
  /\ ~zero_send /\ FileBytes = cumulative + buf_ptr

(***************************************************************************)
(* C27.  A refusal of an oversized request (EMSGSIZE) in stubborn_send()   *)
(* is retried at once, with no sleep, and leaves the would-block retry     *)
(* count as it was: after any number of such refusals as many would-block  *)
(* retries are left as before.  Nothing is sent or counted by the step.    *)
(***************************************************************************)
C27_OversizeNotCounted ==
  [][(pc = "send" /\ raw' = "EMSGSIZE") =>
       /\ pc' = "send"
       /\ ss'.retries = ss.retries
       /\ ss'.cumulative = ss.cumulative /\ ss'.b_sz = ss.b_sz
       /\ ss'.to_send <= ss.to_send
       /\ wire' = wire /\ cause' = ""]_vars

C27_Witness ==
  /\ pc = "send" /\ raw = "EMSGSIZE"
  /\ ss.retries = MAX_RETRIES
  /\ ss.to_send < ETHER_PAYLOAD /\ ss.to_send > 0
  /\ ss.b_sz > ETHER_PAYLOAD

(***************************************************************************)
(* C28.  In the relay of the file a read() that fails with EINTR or EAGAIN *)
(* is retried, up to MAX_RETRIES times; the transient failure after those  *)
(* makes the call fail with EAGAIN, also when that last failure was an     *)
(* EINTR, and the length output is the number of octets sent so far.       *)
(***************************************************************************)
C28_ReadGivesUpAsWouldBlock ==
  /\ pc = "read" => retries <= MAX_RETRIES
  /\ (Failed /\ cause = "read" /\ raw \in {"EINTR", "EAGAIN"}) =>
       /\ retries = MAX_RETRIES + 1
       /\ errno = "EAGAIN"
       /\ len = SegBytes(wire)

(***************************************************************************)
(* C29.  A read() failure that is not transient ends the relay of the      *)
(* file at once, with no retry and no other send(): EINVAL from read() is  *)
(* reported as EIO, every other such error as it is, and the length        *)
(* output is the number of octets sent before it.                          *)
(***************************************************************************)
C29_ReadFailureIsFatal ==
  /\ []((Failed /\ cause = "read" /\ raw \notin {"EINTR", "EAGAIN"}) =>
          /\ errno = IF raw = "EINVAL" THEN "EIO" ELSE raw
          /\ len = SegBytes(wire))
  /\ [][(pc = "read" /\ raw' \notin {"0", "EINTR", "EAGAIN"}) =>
          /\ pc' = "done" /\ ret' = -1 /\ cause' = "read"
          /\ retries' = retries /\ wire' = wire
          /\ len' = len + cumulative]_vars

C29_Witness ==
  /\ Failed /\ cause = "read" /\ raw = "EINVAL" /\ errno = "EIO"
  /\ retries = 0
  /\ MemBytes > 0 /\ FileBytes > 0 /\ len = MemBytes + FileBytes
  /\ fpos < st_size

(***************************************************************************)
(* C30.  Every retry of a transient failure comes after one sleep, at all  *)
(* three retry sites (EAGAIN on writev() in spool_iovv(), EAGAIN/ENOBUFS   *)
(* on send() in stubborn_send(), EINTR/EAGAIN on read() in the relay of    *)
(* the file): the same primitive is never called again straight after its  *)
(* transient failure.  raw is the outcome of the last primitive called,    *)
(* the sleep included.                                                     *)
(***************************************************************************)
C30_SleepBeforeRetry ==
  /\ pc = "writev" => raw # "EAGAIN"
  /\ pc = "send" => raw \notin {"EAGAIN", "ENOBUFS"}
  /\ pc = "read" => raw \notin {"EINTR", "EAGAIN"}

\* The call ended because a signal interrupted writev(), send() or one of
\* the two sleeps.
Interrupted ==
  /\ Failed
  /\ \/ cause \in {"writev", "send"} /\ raw = "EINTR"
     \/ cause \in {"sp_sleep", "ss_sleep"}

(***************************************************************************)
(* C31.  An interruption by a signal while data is moved (writev() or      *)
(* send() failing with EINTR, or the sleep of spool_iovv() or of           *)
(* stubborn_send() being interrupted) is never retried: the call fails     *)
(* with EINTR and the length output is the number of octets the socket     *)
(* accepted before the interruption.                                       *)
(***************************************************************************)
C31_InterruptedReportsProgress ==
  Interrupted => errno = "EINTR" /\ len = SegBytes(wire)

\* spool_iovv() was handed a set with no bad element whose lengths add up
\* to more than an ssize_t holds.
WideSet ==
  /\ sp.set # <<>>
  /\ \A i \in 1..Len(sp.set) : ~BadVec(sp.set[i])
  /\ SumLen(sp.set) > SSIZE_MAX

(***************************************************************************)
(* C32.  check_iovv() totals the lengths without wrap-around of its        *)
(* signed result: for a set with no bad element whose true total does not  *)
(* fit the result, it never returns a wrapped value (below 0, 0, or less   *)
(* than the true total) as the total, and spool_iovv() never takes the     *)
(* set to have that length: the set is turned down with an error.          *)
(***************************************************************************)
C32_TotalNeverWraps ==
  WideSet =>
    /\ CheckFailed /\ errno # "0"
    /\ sp.left_2_go = -1
    /\ wire = sp.wire0

(***************************************************************************)
(* C33.  In stubborn_send(), send() never reporting more octets than it    *)
(* was asked for, at every send() the octets already sent plus the         *)
(* request do not exceed the buffer's length N, and the octets sent never  *)
(* exceed N: no send() reads past the end of the buffer.                   *)
(***************************************************************************)
C33_SendStaysInBuffer ==
  /\ pc \in {"send", "ss_sleep"} =>
       /\ ss.cumulative >= 0 /\ ss.to_send >= 0
       /\ ss.cumulative + ss.to_send <= ss.b_sz
       /\ ss.cumulative < ss.b_sz
       /\ ss.b_sz <= BUF_SZ
  /\ (SendReturned \/ (Failed /\ cause \in {"send", "ss_sleep"})) =>
       buf_ptr >= 0 /\ buf_ptr <= fpos - buf_at /\ fpos - buf_at <= BUF_SZ

C33_Witness ==
  /\ pc = "send"
  /\ ss.b_sz = BUF_SZ
  /\ ss.cumulative > 0
  /\ ss.cumulative + ss.to_send = ss.b_sz
  /\ ss.to_send < ETHER_PAYLOAD

\* spool_iovv() is running.
Spooling == pc \in {"writev", "sp_sleep"}

(***************************************************************************)
(* C34.  spool_iovv() terminates for every sequence of writev() outcomes   *)
(* on a valid set, also when writev() keeps returning success with 0       *)
(* octets written: once it runs it comes to its return.                    *)
(***************************************************************************)
C34_SpoolTerminates == Spooling ~> ~Spooling

\* stubborn_send() is running.
Sending == pc \in {"send", "ss_sleep"}

(***************************************************************************)
(* C35.  stubborn_send() terminates for every sequence of send()           *)
(* outcomes, also when send() refuses every request size with EMSGSIZE     *)
(* without end: once it runs it comes to its return.                       *)
(***************************************************************************)
C35_SendTerminates == Sending ~> ~Sending

\* The sendfile() loop over the file is running.
Relaying == pc \in {"read", "send", "ss_sleep"}

\* No step resets a retry count while the call it belongs to goes on, and
\* a step that moves octets leaves the count as it is.
NoReset ==
  /\ (Relaying \/ (pc = "body" /\ "read" \in used)) => retries' >= retries
  /\ (pc = "read" /\ raw' = "0") => retries' = retries
  /\ (Spooling /\ Spooling') =>
       /\ sp'.retries >= sp.retries
       /\ wire' # wire => sp'.retries = sp.retries
  /\ (Sending /\ Sending') =>
       /\ ss'.retries >= ss.retries
       /\ wire' # wire => ss'.retries = ss.retries

(***************************************************************************)
(* C36.  The retry counts are per call and progress never resets them:     *)
(* the count of read() retries is set to 0 once, before the loop over the  *)
(* file, so that the call gives up at the (MAX_RETRIES + 1)-th transient   *)
(* read() failure of the whole call, reads having succeeded in between or  *)
(* not; likewise the would-block count of one spool_iovv() call and of     *)
(* one stubborn_send() call is not reset by a writev()/send() that moved   *)
(* octets.                                                                 *)
(***************************************************************************)
C36_CountsNeverReset ==
  /\ [][NoReset]_vars
  /\ []((Failed /\ cause = "read" /\ raw \in {"EINTR", "EAGAIN"}) =>
          retries = MAX_RETRIES + 1)
  /\ []((Failed /\ cause = "writev" /\ raw = "EAGAIN") =>
          sp.retries = MAX_RETRIES + 1)
  /\ []((Failed /\ cause = "send" /\ raw \in {"EAGAIN", "ENOBUFS"}) =>
          ss.retries = MAX_RETRIES + 1)

C36_Witness ==
  /\ pc = "read" /\ raw = "0"
  /\ retries > 0
  /\ cumulative > 0 /\ FileBytes = cumulative

\* What sendfile() does at part p with the array v of n elements.
HandOffStep(p, v, n) ==
  pc = p =>
    /\ (sp' # NoSp) <=> (~hdtr.null /\ (v # NULLV \/ n # 0))
    /\ (~hdtr.null /\ v = NULLV /\ n # 0) => (Failed' /\ errno' = "EFAULT")
    /\ (~hdtr.null /\ v # NULLV /\ n <= 0) => (Failed' /\ errno' = "EINVAL")
    /\ (hdtr.null \/ (v = NULLV /\ n = 0)) =>
         (~Failed' /\ wire' = wire /\ len' = len /\ errno' = errno)

(***************************************************************************)
(* C37.  sendfile() hands the headers (and likewise the trailers) to       *)
(* spool_iovv() exactly when hdtr is not NULL and the array pointer is not *)
(* NULL or the count is not 0: a NULL array with a count other than 0      *)
(* fails the call with EFAULT, an array that is not NULL with a count      *)
(* <= 0 fails it with EINVAL, and with hdtr NULL, or a NULL array and a    *)
(* count of 0, nothing is sent for the part and that is no error.          *)
(***************************************************************************)
C37_HandOffRule ==
  [][/\ HandOffStep("hdr", hdtr.headers, hdtr.hdr_cnt)
     /\ HandOffStep("trl", hdtr.trailers, hdtr.trlr_cnt)]_vars

C37_Witness ==
  /\ Failed /\ cause = "check_iovv" /\ part = "trl"
  /\ hdtr.trailers # NULLV /\ hdtr.trlr_cnt = 0
  /\ errno = "EINVAL"
  /\ sp # NoSp /\ wire # <<>>

\* The call asks for the file from its very end on.
AtEnd == ArgsOK /\ offset = st_size

\* What stops a call at the end of the file: a descriptor that is not
\* valid, a set that is not valid, or a primitive that failed.
Refusals ==
  {"fstat_fd", "fd_mode", "fstat_sd", "sd_mode", "getsockopt", "so_type",
   "lseek", "check_iovv", "writev", "sp_sleep", "read"}

(***************************************************************************)
(* C38.  A call whose offset equals the size of the file is not cut short: *)
(* with valid descriptors and a socket that takes everything, the headers  *)
(* and the trailers are sent, no octet of the file is (the first read()    *)
(* of a call that asks for octets reports the end of the file), and the    *)
(* call succeeds with *len = octets of the headers + octets of the         *)
(* trailers.                                                               *)
(***************************************************************************)
C38_OffsetAtEndSendsParts ==
  (Returned /\ AtEnd) =>
    /\ FileBytes = 0 /\ "send" \notin used
    /\ Failed => cause \in Refusals
    /\ Succeeded =>
         /\ len = SegBytes(wire)
         /\ hdtr.headers # hdtr.trailers =>
              SegBytes(wire) = SumLen(HeaderSet) + SumLen(TrailerSet)
         /\ len0 > 0 => ("read" \in used /\ buf_ptr = 0 /\ fpos = st_size)

C38_Witness ==
  /\ Succeeded /\ AtEnd
  /\ st_size > 0 /\ len0 > 0
  /\ "read" \in used /\ buf_ptr = 0
  /\ SumLen(HeaderSet) > 0 /\ SumLen(TrailerSet) > 0
  /\ len = SumLen(HeaderSet) + SumLen(TrailerSet)
  /\ Len(wire) = 2 /\ FileBytes = 0

=============================================================================
